---- MODULE Spec2Model ----
(***************************************************************************)
(* The scheduler of kedro's ParallelRunner (kedro/runner/parallel_runner.py*)
(* ParallelRunner._run): the walk of the dependency graph, the futures of  *)
(* the worker pool, the load counts and the releases of the catalog.       *)
(***************************************************************************)
EXTENDS Integers, Sequences, FiniteSets, TLC

\* ---------------------------------------------------------------- bounds
NumNodes == 3       \* nodes of the pipeline
MaxInputs == 3      \* input names of all nodes together (a name may occur twice)

\* ------------------------------------------------------------- universe
Nodes == 1..NumNodes
\* a prerequisite that is no key of the map ("you_shall_not_pass")
Phantom == NumNodes + 1
\* dataset n is what node n writes; Raw is a dataset no node writes
Raw == {0}
DataSets == Raw \cup Nodes

RECURSIVE SeqsUpTo(_, _)
SeqsUpTo(S, k) ==
    IF k = 0 THEN {<<>>}
    ELSE LET shorter == SeqsUpTo(S, k - 1)
         IN  shorter \cup {Append(s, x) : s \in {t \in shorter : Len(t) = k - 1}, x \in S}

Range(s) == {s[i] : i \in 1..Len(s)}

VARIABLES
    node_inputs,        \* Node.inputs of every node of pipeline.nodes
    node_dependencies,  \* pipeline.node_dependencies as _run reads it
    load_counts,
    todo_nodes,
    done_nodes,
    futures,            \* nodes whose future is in the set `futures`
    done,               \* futures returned by the last wait()
    iter,               \* futures of `done` the for loop has not visited yet
    ready,
    result,             \* per node: state of its execution / future
    pc,                 \* position of _run
    released,           \* per dataset: number of catalog.release calls
    done_adds,          \* per node: number of done_nodes.add calls
    submits,            \* per node: number of pool.submit calls
    resume_calls,       \* arguments of the _suggest_resume_scenario calls
    \* the pre-flight checks of _run
    catalog,            \* catalog._data_sets: per dataset name, its handle
    node_picklable,     \* per node: ForkingPickler.dumps(node) succeeds
    raised,             \* the errors the pre-flight checks have raised
    \* ParallelRunner.__init__ and _get_required_workers_count
    platform,           \* sys.platform
    cpu_count,          \* what os.cpu_count() returns
    arg_max_workers,    \* the max_workers argument of __init__
    self_max_workers,   \* self._max_workers
    max_workers,        \* max_workers of _run, the size of the pool
    managers,           \* per manager process ever started: its state
    self_manager,       \* per runner object: self._manager
    runs,               \* per run made: its runner and its default datasets
    \* _SharedMemoryDataSet
    instances,          \* per MemoryDataSet instance of the manager: its data
    handles,            \* per process and name: shared_memory_dataset of its handle
    outcome,            \* what the last call on a handle did
    saved,              \* per name: the data last saved and not released, and by whom
    \* the worker processes of the pool
    start_method,       \* multiprocessing.get_start_method()
    package_name,       \* PACKAGE_NAME handed to the workers, "" where it is None
    node_worker,        \* per node: the worker process that ran it
    bootstraps,         \* per worker process: _bootstrap_subprocess calls
    catalog_saved,      \* the datasets the nodes of the run have saved
    calls               \* per node: what _run_node_synchronization did and returned

scheduler_vars ==
    <<node_inputs, node_dependencies, load_counts, todo_nodes, done_nodes,
      futures, done, iter, ready, result, pc, released, done_adds,
      submits, resume_calls>>
preflight_vars == <<catalog, node_picklable, raised>>
runner_vars ==
    <<platform, cpu_count, arg_max_workers, self_max_workers, max_workers,
      managers, self_manager, runs>>
dataset_vars == <<instances, handles, outcome, saved>>
worker_vars ==
    <<start_method, package_name, node_worker, bootstraps, catalog_saved, calls>>

vars == <<scheduler_vars, preflight_vars, runner_vars, dataset_vars, worker_vars>>

\* ------------------------------------------------------------- pipeline
\* Node.outputs: node n writes the one dataset n
node_outputs(n) == << n >>

\* pipeline.nodes: the nodes the pipeline is made of
nodes == DOMAIN node_inputs

all_inputs == UNION {Range(node_inputs[n]) : n \in nodes}
all_outputs == UNION {Range(node_outputs(n)) : n \in nodes}

\* Pipeline.inputs(): datasets read by some node and written by none
inputs == all_inputs \ all_outputs
\* Pipeline.outputs(): datasets written by some node and read by none
outputs == all_outputs \ all_inputs

\* Pipeline.node_dependencies: n depends on the nodes writing its inputs
Dependencies(ins) ==
    [n \in DOMAIN ins |->
        {m \in DOMAIN ins : Range(node_outputs(m)) \cap Range(ins[n]) # {}}]

\* the pipelines of the model: node n reads the raw dataset and the
\* outputs of lower-numbered nodes only, so the derived graph is acyclic;
\* the input lists of all nodes together hold at most MaxInputs names
RECURSIVE TotalLen(_)
TotalLen(p) == IF p = <<>> THEN 0 ELSE Len(Head(p)) + TotalLen(Tail(p))

RECURSIVE PipelinesUpTo(_)
PipelinesUpTo(n) ==
    IF n = 0 THEN {<<>>}
    ELSE UNION {{Append(p, s) :
                    s \in SeqsUpTo(Raw \cup 1..(n - 1), MaxInputs - TotalLen(p))} :
                p \in PipelinesUpTo(n - 1)}

Pipelines == PipelinesUpTo(NumNodes)

\* a dependency map that was tampered with: prerequisites added to the
\* derived ones, either a name that is no node or a two-node cycle
NoPatch == [n \in Nodes |-> {}]
PhantomPatch(m) == [n \in Nodes |-> IF n = m THEN {Phantom} ELSE {}]
CyclePatch(i, j) == [n \in Nodes |-> IF n = i THEN {j} ELSE IF n = j THEN {i} ELSE {}]
Patches ==
    {NoPatch} \cup {PhantomPatch(m) : m \in Nodes}
              \cup {CyclePatch(e[1], e[2]) : e \in {x \in Nodes \X Nodes : x[1] < x[2]}}

\* chain.from_iterable(n.inputs for n in nodes), counted per dataset
Occurrences(s, d) == Cardinality({i \in 1..Len(s) : s[i] = d})

RECURSIVE SumOver(_, _, _)
SumOver(S, ins, d) ==
    IF S = {} THEN 0
    ELSE LET n == CHOOSE x \in S : TRUE
         IN  Occurrences(ins[n], d) + SumOver(S \ {n}, ins, d)

\* line 278: Counter(chain.from_iterable(n.inputs for n in nodes))
Counter(ins) == [d \in DataSets |-> SumOver(DOMAIN ins, ins, d)]

\* ------------------------------------------------------ the other parts
\* values of the variables of a part of the program a specification does
\* not exercise
None == 0

\* the processes of a run: the one that runs _run and the workers of the pool
NumWorkers == 2
Scheduler == 0
Workers == 1..NumWorkers
Procs == {Scheduler} \cup Workers

\* a node _run_node_synchronization was not called for
NoCall == [steps |-> <<>>, returned |-> None]

\* the ParallelRunner objects, and the one whose _run is followed
Runners == {1, 2}
Self == 1

\* the names that get a default dataset
DefaultNames == {0, 1}

\* the data of the nodes: its class and whether pickle.dumps takes it
Values ==
    {[class |-> "dict", picklable |-> TRUE],
     [class |-> "DataFrame", picklable |-> TRUE],
     [class |-> "TextIOWrapper", picklable |-> FALSE]}

\* MemoryDataSet that holds no data
NoData == [class |-> "_EMPTY", picklable |-> FALSE]

\* the handles a catalog can hold
HandleKinds ==
    {"_SharedMemoryDataSet", "MemoryDataSet", "MemoryDataSetProxy",
     "SingleProcessDataSet", "SparkHiveDataSet"}

\* the catalog _run gets when every dataset is left to the runner's default
DefaultCatalog == [name \in DataSets |-> "_SharedMemoryDataSet"]

PreflightPassed ==
    /\ catalog = DefaultCatalog
    /\ node_picklable = [n \in Nodes |-> TRUE]
    /\ raised = <<>>

\* lines 142-143 have run for the runner of the run, and for no other
ManagerStarted ==
    /\ managers = <<"started">>
    /\ self_manager = [r \in Runners |-> IF r = Self THEN 1 ELSE None]
    /\ runs = <<>>

RunnerIdle ==
    /\ platform = "linux"
    /\ cpu_count = None
    /\ arg_max_workers = None
    /\ self_max_workers = None
    /\ max_workers = None
    /\ ManagerStarted

DataSetIdle ==
    /\ instances = <<>>
    /\ handles = [p \in Procs |-> [name \in DefaultNames |-> None]]
    /\ outcome = <<>>
    /\ saved = [name \in DefaultNames |-> [data |-> NoData, by |-> Scheduler]]

WorkersIdle ==
    /\ start_method = "fork"
    /\ package_name = ""
    /\ node_worker = [n \in Nodes |-> None]
    /\ bootstraps = [w \in Workers |-> 0]
    /\ calls = [n \in Nodes |-> NoCall]
    /\ catalog_saved = {}

\* ---------------------------------------------------------------- _run
\* lines 278-283: the locals of _run, functions of the pipeline alone
Locals ==
    /\ load_counts = Counter(node_inputs)
    /\ todo_nodes = DOMAIN node_dependencies
    /\ done_nodes = {}
    /\ futures = {}
    /\ done = {}
    /\ iter = {}
    /\ ready = {}
    /\ result = [n \in Nodes |-> "none"]
    /\ released = [d \in DataSets |-> 0]
    /\ done_adds = [n \in Nodes |-> 0]
    /\ submits = [n \in Nodes |-> 0]
    /\ resume_calls = <<>>

\* _run of a pipeline whose catalog and nodes pass the pre-flight checks,
\* from the point where the worker pool is entered
Init ==
    /\ node_inputs \in Pipelines
    /\ \E p \in Patches :
          node_dependencies =
              [n \in Nodes |-> Dependencies(node_inputs)[n] \cup p[n]]
    /\ Locals
    /\ pc = "loop"
    /\ PreflightPassed
    /\ RunnerIdle
    /\ DataSetIdle
    /\ WorkersIdle

\* Ready with "shares a node with" in the place of "is a subset of"
ReadyOnAnyDependency(todo, deps, dn) ==
    {n \in todo : deps[n] = {} \/ deps[n] \cap dn # {}}

\* Ready with "<" in the place of "<="
ReadyOnProperSubset(todo, deps, dn) ==
    {n \in todo : deps[n] \subseteq dn /\ deps[n] # dn}

\* Ready that looks only at the prerequisites that are keys of the map
ReadyIgnoringUnknown(todo, deps, dn) ==
    {n \in todo : (deps[n] \cap DOMAIN deps) \subseteq dn}

\* Ready that yields one node of the ready set at a time
ReadyOneAtATime(todo, deps, dn) ==
    LET all == {n \in todo : deps[n] \subseteq dn}
    IN  IF all = {} THEN {} ELSE {CHOOSE n \in all : \A m \in all : n <= m}

\* Ready that does not look at the prerequisites
ReadyAll(todo, deps, dn) == todo

\* ready = {n for n in todo_nodes if node_dependencies[n] <= done_nodes}
Ready(todo, deps, dn) == {n \in todo : deps[n] \subseteq dn}

\* the submit pass that leaves the submitted nodes in todo_nodes
SubmitKeepingTodo ==
    /\ pc = "loop"
    /\ ready' = Ready(todo_nodes, node_dependencies, done_nodes)
    /\ todo_nodes' = todo_nodes
    /\ futures' = futures \cup ready'
    /\ result' = [n \in Nodes |-> IF n \in ready' THEN "pending" ELSE result[n]]
    /\ submits' = [n \in Nodes |-> IF n \in ready' THEN submits[n] + 1 ELSE submits[n]]
    /\ pc' = "check"
    /\ UNCHANGED <<node_inputs, node_dependencies, load_counts, done_nodes,
                   done, iter, released, done_adds, resume_calls>>
    /\ UNCHANGED <<preflight_vars, runner_vars, dataset_vars, worker_vars>>

\* lines 294-307: compute the ready set and submit every node of it
Submit ==
    /\ pc = "loop"
    /\ ready' = Ready(todo_nodes, node_dependencies, done_nodes)
    /\ todo_nodes' = todo_nodes \ ready'
    /\ futures' = futures \cup ready'
    /\ result' = [n \in Nodes |-> IF n \in ready' THEN "pending" ELSE result[n]]
    /\ submits' = [n \in Nodes |-> IF n \in ready' THEN submits[n] + 1 ELSE submits[n]]
    /\ pc' = "check"
    /\ UNCHANGED <<node_inputs, node_dependencies, load_counts, done_nodes,
                   done, iter, released, done_adds, resume_calls>>
    /\ UNCHANGED <<preflight_vars, runner_vars, dataset_vars, worker_vars>>

\* lines 308-322: nothing outstanding although nodes are left
RaiseUnableToSchedule ==
    /\ pc = "check"
    /\ futures = {}
    /\ todo_nodes # {}
    /\ pc' = "runtime_error"
    /\ UNCHANGED <<node_inputs, node_dependencies, load_counts, todo_nodes,
                   done_nodes, futures, done, iter, ready, result, released,
                   done_adds, submits, resume_calls>>
    /\ UNCHANGED <<preflight_vars, runner_vars, dataset_vars, worker_vars>>

\* the break taken without the test of todo_nodes
BreakWheneverIdle ==
    /\ pc = "check"
    /\ futures = {}
    /\ pc' = "success"
    /\ UNCHANGED <<node_inputs, node_dependencies, load_counts, todo_nodes,
                   done_nodes, futures, done, iter, ready, result, released,
                   done_adds, submits, resume_calls>>
    /\ UNCHANGED <<preflight_vars, runner_vars, dataset_vars, worker_vars>>

\* line 323: nothing outstanding and nothing left
Break ==
    /\ pc = "check"
    /\ futures = {}
    /\ todo_nodes = {}
    /\ pc' = "success"
    /\ UNCHANGED <<node_inputs, node_dependencies, load_counts, todo_nodes,
                   done_nodes, futures, done, iter, ready, result, released,
                   done_adds, submits, resume_calls>>
    /\ UNCHANGED <<preflight_vars, runner_vars, dataset_vars, worker_vars>>

\* wait(futures, return_when=ALL_COMPLETED)
ResolvedWhenAll(fs) ==
    IF \A n \in fs : result[n] \in {"ok", "raised"} THEN fs ELSE {}

\* wait(futures, return_when=FIRST_COMPLETED): the futures that are done
\* when wait returns
Resolved(fs) == {n \in fs : result[n] \in {"ok", "raised"}}

\* line 324: done, futures = wait(futures, return_when=FIRST_COMPLETED)
Wait ==
    /\ pc = "check"
    /\ futures # {}
    /\ Resolved(futures) # {}
    /\ done' = Resolved(futures)
    /\ futures' = futures \ done'
    /\ iter' = done'
    /\ pc' = "for"
    /\ UNCHANGED <<node_inputs, node_dependencies, load_counts, todo_nodes,
                   done_nodes, ready, result, released, done_adds, submits,
                   resume_calls>>
    /\ UNCHANGED <<preflight_vars, runner_vars, dataset_vars, worker_vars>>

\* the worker side (_run_node_synchronization): the execution of a
\* submitted node returns the node, or raises
NodeReturns(n) ==
    /\ result[n] = "pending"
    /\ result' = [result EXCEPT ![n] = "ok"]
    /\ UNCHANGED <<node_inputs, node_dependencies, load_counts, todo_nodes,
                   done_nodes, futures, done, iter, ready, pc, released,
                   done_adds, submits, resume_calls>>
    /\ UNCHANGED <<preflight_vars, runner_vars, dataset_vars, worker_vars>>

NodeRaises(n) ==
    /\ result[n] = "pending"
    /\ result' = [result EXCEPT ![n] = "raised"]
    /\ UNCHANGED <<node_inputs, node_dependencies, load_counts, todo_nodes,
                   done_nodes, futures, done, iter, ready, pc, released,
                   done_adds, submits, resume_calls>>
    /\ UNCHANGED <<preflight_vars, runner_vars, dataset_vars, worker_vars>>

\* the release condition with "< 2", without the boundary test, with "or"
ReleaseOneEarly(count, data_set, boundary) == count < 2 /\ data_set \notin boundary
ReleaseBoundary(count, data_set, boundary) == count < 1
ReleaseEither(count, data_set, boundary) == count < 1 \/ data_set \notin boundary

\* lines 338-341 and 344-347: the load count is used up and the dataset is
\* not on the boundary of the pipeline
ReleaseCondition(count, data_set, boundary) == count < 1 /\ data_set \notin boundary

\* the loop over set(node.inputs): a name listed twice is visited once
RECURSIVE InputLoopOverSet(_, _, _, _)
InputLoopOverSet(ins, i, lc, rel) ==
    IF i > Len(ins) THEN [load_counts |-> lc, released |-> rel]
    ELSE IF \E j \in 1..(i - 1) : ins[j] = ins[i]
         THEN InputLoopOverSet(ins, i + 1, lc, rel)
         ELSE LET data_set == ins[i]
                  lc2 == [lc EXCEPT ![data_set] = @ - 1]
                  rel2 == IF lc2[data_set] < 1 /\ data_set \notin inputs
                          THEN [rel EXCEPT ![data_set] = @ + 1]
                          ELSE rel
              IN  InputLoopOverSet(ins, i + 1, lc2, rel2)

\* lines 336-342: for data_set in node.inputs, from position i on
RECURSIVE InputLoop(_, _, _, _)
InputLoop(ins, i, lc, rel) ==
    IF i > Len(ins) THEN [load_counts |-> lc, released |-> rel]
    ELSE LET data_set == ins[i]
             lc2 == [lc EXCEPT ![data_set] = @ - 1]
             rel2 == IF ReleaseCondition(lc2[data_set], data_set, inputs)
                     THEN [rel EXCEPT ![data_set] = @ + 1]
                     ELSE rel
         IN  InputLoop(ins, i + 1, lc2, rel2)

\* lines 343-348: for data_set in node.outputs, from position i on
RECURSIVE OutputLoop(_, _, _, _)
OutputLoop(outs, i, lc, rel) ==
    IF i > Len(outs) THEN rel
    ELSE LET data_set == outs[i]
             rel2 == IF ReleaseCondition(lc[data_set], data_set, outputs)
                     THEN [rel EXCEPT ![data_set] = @ + 1]
                     ELSE rel
         IN  OutputLoop(outs, i + 1, lc, rel2)

\* done_nodes.add(node) that loses the node
AddLost(dn, node) == dn

\* line 331: done_nodes.add(node)
Add(dn, node) == dn \cup {node}

\* lines 325-327, 331-348: one pass of the for loop, future.result() returns
Integrate(node) ==
    /\ pc = "for"
    /\ node \in iter
    /\ result[node] = "ok"
    /\ done_nodes' = Add(done_nodes, node)
    /\ done_adds' = [done_adds EXCEPT ![node] = @ + 1]
    /\ LET afterInputs == InputLoop(node_inputs[node], 1, load_counts, released)
       IN  /\ load_counts' = afterInputs.load_counts
           /\ released' = OutputLoop(node_outputs(node), 1,
                                     afterInputs.load_counts, afterInputs.released)
    /\ iter' = iter \ {node}
    /\ pc' = IF iter' = {} THEN "loop" ELSE "for"
    /\ UNCHANGED <<node_inputs, node_dependencies, todo_nodes, futures, done,
                   ready, result, submits, resume_calls>>
    /\ UNCHANGED <<preflight_vars, runner_vars, dataset_vars, worker_vars>>

\* the except clause without its raise: the for loop goes on
SuggestResumeAndGoOn(node) ==
    /\ pc = "for"
    /\ node \in iter
    /\ result[node] = "raised"
    /\ resume_calls' = Append(resume_calls, done_nodes)
    /\ iter' = iter \ {node}
    /\ pc' = IF iter' = {} THEN "loop" ELSE "for"
    /\ UNCHANGED <<node_inputs, node_dependencies, load_counts, todo_nodes,
                   done_nodes, futures, done, ready, result, released,
                   done_adds, submits>>
    /\ UNCHANGED <<preflight_vars, runner_vars, dataset_vars, worker_vars>>

\* the raise that leaves the pool with shutdown(cancel_futures=True): the
\* submissions no worker has taken are cancelled
SuggestResumeAndCancel(node) ==
    /\ pc = "for"
    /\ node \in iter
    /\ result[node] = "raised"
    /\ resume_calls' = Append(resume_calls, done_nodes)
    /\ pc' = "node_error"
    /\ result' = [n \in Nodes |->
                    IF result[n] = "pending" /\ node_worker[n] = None
                    THEN "cancelled" ELSE result[n]]
    /\ UNCHANGED <<node_inputs, node_dependencies, load_counts, todo_nodes,
                   done_nodes, futures, done, iter, ready, released,
                   done_adds, submits>>
    /\ UNCHANGED <<preflight_vars, runner_vars, dataset_vars, worker_vars>>

\* the except clause that hands over the futures of the last wait along
\* with done_nodes
SuggestResumeWithDone(node) ==
    /\ pc = "for"
    /\ node \in iter
    /\ result[node] = "raised"
    /\ resume_calls' = Append(resume_calls, done_nodes \cup done)
    /\ pc' = "node_error"
    /\ UNCHANGED <<node_inputs, node_dependencies, load_counts, todo_nodes,
                   done_nodes, futures, done, iter, ready, result, released,
                   done_adds, submits>>
    /\ UNCHANGED <<preflight_vars, runner_vars, dataset_vars, worker_vars>>

\* lines 325-330: one pass of the for loop, future.result() raises
SuggestResumeAndRaise(node) ==
    /\ pc = "for"
    /\ node \in iter
    /\ result[node] = "raised"
    /\ resume_calls' = Append(resume_calls, done_nodes)
    /\ pc' = "node_error"
    /\ UNCHANGED <<node_inputs, node_dependencies, load_counts, todo_nodes,
                   done_nodes, futures, done, iter, ready, result, released,
                   done_adds, submits>>
    /\ UNCHANGED <<preflight_vars, runner_vars, dataset_vars, worker_vars>>

SchedulerStep ==
    \/ Submit
    \/ RaiseUnableToSchedule
    \/ Break
    \/ Wait
    \/ \E node \in Nodes : Integrate(node)
    \/ \E node \in Nodes : SuggestResumeAndRaise(node)

Next ==
    \/ Submit
    \/ RaiseUnableToSchedule
    \/ Break
    \/ Wait
    \/ \E node \in Nodes : Integrate(node)
    \/ \E node \in Nodes : SuggestResumeAndRaise(node)
    \/ \E n \in Nodes : NodeReturns(n)
    \/ \E n \in Nodes : NodeRaises(n)

Spec == Init /\ [][Next]_vars

\* how often and in which order a node lists its inputs bears on the load
\* counts alone, not on what is submitted or when the run ends: the runs
\* whose end is looked at are those of the pipelines in which every node
\* lists each of its inputs once, in increasing order
FairInit ==
    /\ Init
    /\ \A n \in Nodes : \A i \in 1..Len(node_inputs[n]) :
          \A j \in 1..Len(node_inputs[n]) : i < j => node_inputs[n][i] < node_inputs[n][j]

\* the scheduler's thread keeps running and every submitted execution ends
FairSpec ==
    /\ FairInit
    /\ [][Next]_vars
    /\ WF_vars(SchedulerStep)
    /\ \A n \in Nodes : WF_vars(NodeReturns(n) \/ NodeRaises(n))

\* ------------------------------------------- the pre-flight checks of _run
\* getattr(data_set, "_SINGLE_PROCESS", False)
IsSingleProcess(handle) == handle = "SingleProcessDataSet"

\* a pickler every handle goes through
PicklesAlways(handle) == TRUE

\* ForkingPickler.dumps(data_set) returns; SparkHiveDataSet.__getstate__
\* raises PicklingError
Pickles(handle) == handle # "SparkHiveDataSet"

\* isinstance(data_set, MemoryDataSet)
IsMemoryDataSet(handle) == handle \in {"MemoryDataSet", "MemoryDataSetProxy"}

\* isinstance(data_set, BaseProxy)
IsBaseProxy(handle) == handle = "MemoryDataSetProxy"

\* the orders in which a dict or a list of the program is walked
RECURSIVE Ascending(_)
Ascending(S) ==
    IF S = {} THEN <<>>
    ELSE LET least == CHOOSE x \in S : \A y \in S : x <= y
         IN  <<least>> \o Ascending(S \ {least})

RECURSIVE Descending(_)
Descending(S) ==
    IF S = {} THEN <<>>
    ELSE LET most == CHOOSE x \in S : \A y \in S : x >= y
         IN  <<most>> \o Descending(S \ {most})

Orders(S) == {Ascending(S), Descending(S)}

\* sorted() that returns the list as it is
Unsorted(s) == s

\* sorted(): insertion into the sorted rest
RECURSIVE Sorted(_)
Sorted(s) ==
    IF s = <<>> THEN <<>>
    ELSE LET rest == Sorted(Tail(s))
             k == Cardinality({i \in 1..Len(rest) : rest[i] < Head(s)})
         IN  SubSeq(rest, 1, k) \o <<Head(s)>> \o SubSeq(rest, k + 1, Len(rest))

\* the single-process flag read as an opt-out of the pickling test
CannotBeUsedUnlessFlagged(handle) == ~IsSingleProcess(handle) /\ ~Pickles(handle)

\* lines 205-211: the handle is flagged single-process or does not pickle
CannotBeUsed(handle) == IsSingleProcess(handle) \/ ~Pickles(handle)

\* the loop taken over the datasets of the pipeline only
UnserializableReferenced(order) ==
    SelectSeq(order, LAMBDA name :
        /\ name \in all_inputs \cup all_outputs
        /\ CannotBeUsed(catalog[name]))

\* lines 203-211: the names collected in the order of catalog._data_sets
Unserializable(order) ==
    SelectSeq(order, LAMBDA name : CannotBeUsed(catalog[name]))

\* lines 223-231: the plain memory datasets some node writes
MemoryDataSets(order) ==
    SelectSeq(order, LAMBDA name :
        /\ name \in all_outputs
        /\ IsMemoryDataSet(catalog[name])
        /\ ~IsBaseProxy(catalog[name]))

\* a loop over the nodes that stops at the first node that does not pickle
FirstUnserializableNode(order) ==
    LET every == SelectSeq(order, LAMBDA node : ~node_picklable[node])
    IN  IF every = <<>> THEN <<>> ELSE <<Head(every)>>

\* lines 177-182: the nodes collected in the order of pipeline.nodes
UnserializableNodes(order) ==
    SelectSeq(order, LAMBDA node : ~node_picklable[node])

AttributeError(about, names) ==
    [error |-> "AttributeError", about |-> about, names |-> names]

\* _validate_catalog with its two checks in the other order
ValidateCatalogMemoryFirst(order) ==
    /\ pc = "validate_catalog"
    /\ LET unserializable == Unserializable(order)
           memory_data_sets == MemoryDataSets(order)
       IN  IF memory_data_sets # <<>>
           THEN /\ raised' = Append(raised,
                       AttributeError("data sets are memory data sets",
                                      Sorted(memory_data_sets)))
                /\ pc' = "validation_error"
           ELSE IF unserializable # <<>>
           THEN /\ raised' = Append(raised,
                       AttributeError("data sets cannot be used with multiprocessing",
                                      Sorted(unserializable)))
                /\ pc' = "validation_error"
           ELSE /\ raised' = raised
                /\ pc' = "validate_nodes"
    /\ UNCHANGED <<node_inputs, node_dependencies, load_counts, todo_nodes,
                   done_nodes, futures, done, iter, ready, result, released,
                   done_adds, submits, resume_calls, catalog, node_picklable>>
    /\ UNCHANGED <<runner_vars, dataset_vars, worker_vars>>

\* line 275, _validate_catalog (lines 201-237)
ValidateCatalog(order) ==
    /\ pc = "validate_catalog"
    /\ LET unserializable == Unserializable(order)
           memory_data_sets == MemoryDataSets(order)
       IN  IF unserializable # <<>>
           THEN /\ raised' = Append(raised,
                       AttributeError("data sets cannot be used with multiprocessing",
                                      Sorted(unserializable)))
                /\ pc' = "validation_error"
           ELSE IF memory_data_sets # <<>>
           THEN /\ raised' = Append(raised,
                       AttributeError("data sets are memory data sets",
                                      Sorted(memory_data_sets)))
                /\ pc' = "validation_error"
           ELSE /\ raised' = raised
                /\ pc' = "validate_nodes"
    /\ UNCHANGED <<node_inputs, node_dependencies, load_counts, todo_nodes,
                   done_nodes, futures, done, iter, ready, result, released,
                   done_adds, submits, resume_calls, catalog, node_picklable>>
    /\ UNCHANGED <<runner_vars, dataset_vars, worker_vars>>

\* _validate_nodes that reports and returns
ValidateNodesAndGoOn(order) ==
    /\ pc = "validate_nodes"
    /\ LET unserializable == UnserializableNodes(order)
       IN  raised' = IF unserializable # <<>>
                     THEN Append(raised,
                              AttributeError("nodes cannot be serialized",
                                             Sorted(unserializable)))
                     ELSE raised
    /\ pc' = "loop"
    /\ UNCHANGED <<node_inputs, node_dependencies, load_counts, todo_nodes,
                   done_nodes, futures, done, iter, ready, result, released,
                   done_adds, submits, resume_calls, catalog, node_picklable>>
    /\ UNCHANGED <<runner_vars, dataset_vars, worker_vars>>

\* line 276, _validate_nodes (lines 177-192)
ValidateNodes(order) ==
    /\ pc = "validate_nodes"
    /\ LET unserializable == UnserializableNodes(order)
       IN  IF unserializable # <<>>
           THEN /\ raised' = Append(raised,
                       AttributeError("nodes cannot be serialized",
                                      Sorted(unserializable)))
                /\ pc' = "validation_error"
           ELSE /\ raised' = raised
                /\ pc' = "loop"
    /\ UNCHANGED <<node_inputs, node_dependencies, load_counts, todo_nodes,
                   done_nodes, futures, done, iter, ready, result, released,
                   done_adds, submits, resume_calls, catalog, node_picklable>>
    /\ UNCHANGED <<runner_vars, dataset_vars, worker_vars>>

\* the pre-flight checks read pipeline.nodes and pipeline.all_outputs()
\* only: the pipelines they are run on are those of independent nodes
PreflightPipelines == {p \in Pipelines : TotalLen(p) = 0}

\* _run from its first line, on any catalog and any nodes
PreflightInit ==
    /\ node_inputs \in PreflightPipelines
    /\ \E p \in Patches :
          node_dependencies =
              [n \in Nodes |-> Dependencies(node_inputs)[n] \cup p[n]]
    /\ Locals
    /\ pc = "validate_catalog"
    /\ catalog \in [DataSets -> HandleKinds]
    /\ node_picklable \in [Nodes -> BOOLEAN]
    /\ raised = <<>>
    /\ RunnerIdle
    /\ DataSetIdle
    /\ WorkersIdle

PreflightNext ==
    \/ \E order \in Orders(DataSets) : ValidateCatalog(order)
    \/ \E order \in Orders(Nodes) : ValidateNodes(order)
    \/ Next

PreflightSpec == PreflightInit /\ [][PreflightNext]_vars

\* ------------------------------------------------- the number of workers
\* line 23
MAX_WINDOWS_WORKERS == 61

Platforms == {"linux", "win32"}

\* os.cpu_count(): None or a positive number
CpuCounts == {None, 1, 2, MAX_WINDOWS_WORKERS, MAX_WINDOWS_WORKERS + 1}

\* the max_workers argument of ParallelRunner(): None or a positive number
MaxWorkersArguments == {None, 1, 2, MAX_WINDOWS_WORKERS, MAX_WINDOWS_WORKERS + 1}

Min(a, b) == IF a <= b THEN a ELSE b

\* Pipeline.grouped_nodes: the layers of the toposort, each layer the
\* nodes whose prerequisites are all in the layers before it
RECURSIVE Toposort(_, _)
Toposort(deps, placed) ==
    LET layer == {n \in (DOMAIN deps) \ placed : deps[n] \subseteq placed}
    IN  IF layer = {} THEN <<>>
        ELSE <<layer>> \o Toposort(deps, placed \cup layer)

grouped_nodes == Toposort(Dependencies(node_inputs), {})

\* lines 147-154: the value __init__ stores in self._max_workers
NewRunner(given, cpus, os) ==
    IF given = None
    THEN LET limit == IF cpus = None THEN 1 ELSE cpus
         IN  IF os = "win32" THEN Min(MAX_WINDOWS_WORKERS, limit) ELSE limit
    ELSE given

\* the estimate taken without the limit of the runner
RequiredOnly(required_processes, limit) == required_processes

\* line 251
WorkersCount(required_processes, limit) == Min(required_processes, limit)

\* ParallelRunner.__init__ (lines 126-154)
Construct ==
    /\ pc = "new"
    /\ managers' = Append(managers, "started")
    /\ self_manager' = [self_manager EXCEPT ![Self] = Len(managers) + 1]
    /\ self_max_workers' = NewRunner(arg_max_workers, cpu_count, platform)
    /\ pc' = "constructed"
    /\ UNCHANGED <<node_inputs, node_dependencies, load_counts, todo_nodes,
                   done_nodes, futures, done, iter, ready, result, released,
                   done_adds, submits, resume_calls>>
    /\ UNCHANGED <<platform, cpu_count, arg_max_workers, max_workers, runs>>
    /\ UNCHANGED <<preflight_vars, dataset_vars, worker_vars>>

\* the estimate without the "+ 1"
GetRequiredWorkersCountNoSpare ==
    /\ pc = "constructed"
    /\ LET required_processes == Cardinality(nodes) - Len(grouped_nodes)
       IN  max_workers' = WorkersCount(required_processes, self_max_workers)
    /\ pc' = "pool"
    /\ UNCHANGED <<node_inputs, node_dependencies, load_counts, todo_nodes,
                   done_nodes, futures, done, iter, ready, result, released,
                   done_adds, submits, resume_calls>>
    /\ UNCHANGED <<platform, cpu_count, arg_max_workers, self_max_workers,
                   managers, self_manager, runs>>
    /\ UNCHANGED <<preflight_vars, dataset_vars, worker_vars>>

\* line 284, _get_required_workers_count (lines 239-251)
GetRequiredWorkersCount ==
    /\ pc = "constructed"
    /\ LET required_processes == Cardinality(nodes) - Len(grouped_nodes) + 1
       IN  max_workers' = WorkersCount(required_processes, self_max_workers)
    /\ pc' = "pool"
    /\ UNCHANGED <<node_inputs, node_dependencies, load_counts, todo_nodes,
                   done_nodes, futures, done, iter, ready, result, released,
                   done_adds, submits, resume_calls>>
    /\ UNCHANGED <<platform, cpu_count, arg_max_workers, self_max_workers,
                   managers, self_manager, runs>>
    /\ UNCHANGED <<preflight_vars, dataset_vars, worker_vars>>

\* a runner is made and sizes the pool of one run
WorkersInit ==
    /\ node_inputs \in Pipelines
    /\ node_dependencies = Dependencies(node_inputs)
    /\ Locals
    /\ pc = "new"
    /\ PreflightPassed
    /\ platform \in Platforms
    /\ cpu_count \in CpuCounts
    /\ arg_max_workers \in MaxWorkersArguments
    /\ self_max_workers = None
    /\ max_workers = None
    /\ managers = <<>>
    /\ self_manager = [r \in Runners |-> None]
    /\ runs = <<>>
    /\ DataSetIdle
    /\ WorkersIdle

WorkersNext == Construct \/ GetRequiredWorkersCount

WorkersSpec == WorkersInit /\ [][WorkersNext]_vars

\* ------------------------------------------------ _SharedMemoryDataSet
NoError == [type |-> "", about |-> ""]

\* what self.shared_memory_dataset.save(data) can raise: the proxy pickles
\* the data to send it, and the connection to the manager can fail
StoreErrors(data) ==
    {[type |-> "ConnectionError", about |-> "manager"]}
        \cup (IF data.picklable THEN {}
              ELSE {[type |-> "TypeError", about |-> "cannot pickle"]})

\* the outcomes of self.shared_memory_dataset.save(data)
StoreOutcomes(data) ==
    StoreErrors(data) \cup (IF data.picklable THEN {NoError} ELSE {})

\* lines 56-59
DataSetError(class) == [type |-> "DataSetError", about |-> class]

\* save that raises what the store raised, without a probe
Reraised(data, exc) == exc

\* save that reports every failure of the store as one of the data
AlwaysDataSetError(data, exc) == DataSetError(data.class)

\* lines 51-61: what save raises when the store raised exc
SaveFailure(data, exc) ==
    IF ~data.picklable THEN DataSetError(data.class) ELSE exc

\* a handle that reaches a process as a copy with a MemoryDataSet of its own
PrivateCopy(referent, insts) ==
    [referent |-> Len(insts) + 1, insts |-> Append(insts, insts[referent])]

\* line 39: shared_memory_dataset is a proxy; a pickled proxy refers to the
\* instance of the manager it was made for
Unpickled(referent, insts) == [referent |-> referent, insts |-> insts]

\* a call on the handle of a name in process p: its argument, what the
\* store did, whether pickle.dumps was tried, and what the caller got
Call(op, p, name) ==
    [op |-> op, proc |-> p, name |-> name, data |-> NoData,
     stored |-> NoError, probed |-> FALSE,
     returned |-> NoData, found |-> FALSE, raised |-> NoError]

\* create_default_data_set (lines 159-172), _SharedMemoryDataSet.__init__
CreateDefaultDataSet(ds_name) ==
    /\ pc = "datasets"
    /\ handles[Scheduler][ds_name] = None
    /\ instances' = Append(instances, NoData)
    /\ handles' = [handles EXCEPT ![Scheduler][ds_name] = Len(instances) + 1]
    /\ UNCHANGED <<outcome, saved>>
    /\ UNCHANGED <<scheduler_vars, preflight_vars, runner_vars, worker_vars>>

\* lines 298-307: the catalog is pickled for the task of worker w
ReceiveHandle(w, name) ==
    /\ pc = "datasets"
    /\ handles[Scheduler][name] # None
    /\ handles[w][name] = None
    /\ LET copy == Unpickled(handles[Scheduler][name], instances)
       IN  /\ handles' = [handles EXCEPT ![w][name] = copy.referent]
           /\ instances' = copy.insts
    /\ UNCHANGED <<outcome, saved>>
    /\ UNCHANGED <<scheduler_vars, preflight_vars, runner_vars, worker_vars>>

\* _SharedMemoryDataSet.save (lines 47-61) called in process p
Save(p, name, data, stored) ==
    /\ pc = "datasets"
    /\ handles[p][name] # None
    /\ IF stored = NoError
       THEN /\ instances' = [instances EXCEPT ![handles[p][name]] = data]
            /\ saved' = [saved EXCEPT ![name] = [data |-> data, by |-> p]]
            /\ outcome' = <<[Call("save", p, name) EXCEPT !.data = data]>>
       ELSE /\ outcome' = <<[Call("save", p, name) EXCEPT
                               !.data = data,
                               !.stored = stored,
                               !.probed = TRUE,
                               !.raised = SaveFailure(data, stored)]>>
            /\ UNCHANGED <<instances, saved>>
    /\ UNCHANGED handles
    /\ UNCHANGED <<scheduler_vars, preflight_vars, runner_vars, worker_vars>>

\* __getattr__ (lines 41-45): load of the MemoryDataSet of the manager
Load(p, name) ==
    /\ pc = "datasets"
    /\ handles[p][name] # None
    /\ LET data == instances[handles[p][name]]
       IN  outcome' = <<[Call("load", p, name) EXCEPT
                           !.returned = data,
                           !.raised = IF data = NoData
                                      THEN DataSetError("MemoryDataSet")
                                      ELSE NoError]>>
    /\ UNCHANGED <<instances, handles, saved>>
    /\ UNCHANGED <<scheduler_vars, preflight_vars, runner_vars, worker_vars>>

\* __getattr__ (lines 41-45): exists of the MemoryDataSet of the manager
Exists(p, name) ==
    /\ pc = "datasets"
    /\ handles[p][name] # None
    /\ outcome' = <<[Call("exists", p, name) EXCEPT
                       !.found = instances[handles[p][name]] # NoData]>>
    /\ UNCHANGED <<instances, handles, saved>>
    /\ UNCHANGED <<scheduler_vars, preflight_vars, runner_vars, worker_vars>>

\* __getattr__ (lines 41-45): release of the MemoryDataSet of the manager
Release(p, name) ==
    /\ pc = "datasets"
    /\ handles[p][name] # None
    /\ instances' = [instances EXCEPT ![handles[p][name]] = NoData]
    /\ saved' = [saved EXCEPT ![name] = [data |-> NoData, by |-> Scheduler]]
    /\ outcome' = <<Call("release", p, name)>>
    /\ UNCHANGED handles
    /\ UNCHANGED <<scheduler_vars, preflight_vars, runner_vars, worker_vars>>

\* the default datasets of a run, used from the processes of the run
DataSetInit ==
    /\ node_inputs \in PreflightPipelines
    /\ node_dependencies = Dependencies(node_inputs)
    /\ Locals
    /\ pc = "datasets"
    /\ PreflightPassed
    /\ RunnerIdle
    /\ DataSetIdle
    /\ WorkersIdle

DataSetNext ==
    \/ \E ds_name \in DefaultNames : CreateDefaultDataSet(ds_name)
    \/ \E w \in Workers, name \in DefaultNames : ReceiveHandle(w, name)
    \/ \E p \in Procs, name \in DefaultNames, data \in Values :
          \E stored \in StoreOutcomes(data) : Save(p, name, data, stored)
    \/ \E p \in Procs, name \in DefaultNames : Load(p, name)
    \/ \E p \in Procs, name \in DefaultNames : Exists(p, name)
    \/ \E p \in Procs, name \in DefaultNames : Release(p, name)

DataSetSpec == DataSetInit /\ [][DataSetNext]_vars

\* ------------------------------------------- _run_node_synchronization
\* multiprocessing.get_start_method()
StartMethods == {"fork", "spawn", "forkserver"}

\* PACKAGE_NAME: unset, or the name of the project package
PackageNames == {"", "project"}

\* the test of line 111 without the package name
NeedsBootstrapOnSpawn == start_method = "spawn"

\* line 111
NeedsBootstrap == start_method = "spawn" /\ package_name # ""

\* run_node returns the node it has run
run_node(node) == node

\* lines 111-115: what a call does, in order
Steps(needs) ==
    IF needs THEN <<"_bootstrap_subprocess", "run_node">> ELSE <<"run_node">>

\* _run_node_synchronization (lines 83-115) of node n in worker process w
RunNodeSynchronization(w, n) ==
    /\ pc = "workers"
    /\ node_worker[n] = None
    /\ bootstraps' = IF NeedsBootstrap
                     THEN [bootstraps EXCEPT ![w] = @ + 1]
                     ELSE bootstraps
    /\ node_worker' = [node_worker EXCEPT ![n] = w]
    /\ calls' = [calls EXCEPT ![n] =
                    [steps |-> Steps(NeedsBootstrap), returned |-> run_node(n)]]
    /\ UNCHANGED <<start_method, package_name, catalog_saved>>
    /\ UNCHANGED <<node_inputs, node_dependencies, load_counts, todo_nodes,
                   done_nodes, futures, done, iter, ready, result, pc, released,
                   done_adds, submits, resume_calls>>
    /\ UNCHANGED <<preflight_vars, runner_vars, dataset_vars>>

\* the nodes of a pipeline, each run once by some worker of the pool
BootstrapInit ==
    /\ node_inputs \in PreflightPipelines
    /\ node_dependencies = Dependencies(node_inputs)
    /\ Locals
    /\ pc = "workers"
    /\ PreflightPassed
    /\ RunnerIdle
    /\ DataSetIdle
    /\ start_method \in StartMethods
    /\ package_name \in PackageNames
    /\ node_worker = [n \in Nodes |-> None]
    /\ bootstraps = [w \in Workers |-> 0]
    /\ calls = [n \in Nodes |-> NoCall]
    /\ catalog_saved = {}

BootstrapNext == \E w \in Workers, n \in Nodes : RunNodeSynchronization(w, n)

BootstrapSpec == BootstrapInit /\ [][BootstrapNext]_vars

\* ------------------------------------------------------ the worker pool
\* the submitted executions no worker process has taken yet
Queued == {n \in Nodes : result[n] = "pending" /\ node_worker[n] = None}

\* the executions running in a worker process
Executing == {n \in Nodes : result[n] = "pending" /\ node_worker[n] # None}

\* a pool that starts a process per submission
FreeWorkersUncapped == (1..Cardinality(Nodes)) \ {node_worker[n] : n \in Executing}

\* line 292: ProcessPoolExecutor(max_workers=max_workers) has the worker
\* processes 1..max_workers; a process runs one execution at a time
FreeWorkers == (1..max_workers) \ {node_worker[n] : n \in Executing}

\* run_node that returns the node without saving its outputs
SavedByNothing(n) == {}

\* run_node saves every output of the node before it returns the node
SavedBy(n) == Range(node_outputs(n))

\* line 292: with ProcessPoolExecutor(max_workers=max_workers) as pool
EnterPool ==
    /\ pc = "pool"
    /\ pc' = "loop"
    /\ UNCHANGED <<node_inputs, node_dependencies, load_counts, todo_nodes,
                   done_nodes, futures, done, iter, ready, result, released,
                   done_adds, submits, resume_calls>>
    /\ UNCHANGED <<preflight_vars, runner_vars, dataset_vars, worker_vars>>

\* a free worker process of the pool takes a submitted execution (which
\* process takes it has no bearing on the run: the lowest free one does)
PoolStart(n) ==
    /\ n \in Queued
    /\ FreeWorkers # {}
    /\ node_worker' = [node_worker EXCEPT ![n] =
                          CHOOSE w \in FreeWorkers : \A v \in FreeWorkers : w <= v]
    /\ UNCHANGED <<start_method, package_name, bootstraps, catalog_saved, calls>>
    /\ UNCHANGED <<scheduler_vars, preflight_vars, runner_vars, dataset_vars>>

\* line 115: run_node saves the outputs of the node and returns the node,
\* the result of the future
RunNodeReturns(n) ==
    /\ n \in Executing
    /\ catalog_saved' = catalog_saved \cup SavedBy(n)
    /\ result' = [result EXCEPT ![n] = "ok"]
    /\ UNCHANGED <<node_inputs, node_dependencies, load_counts, todo_nodes,
                   done_nodes, futures, done, iter, ready, pc, released,
                   done_adds, submits, resume_calls>>
    /\ UNCHANGED <<start_method, package_name, node_worker, bootstraps, calls>>
    /\ UNCHANGED <<preflight_vars, runner_vars, dataset_vars>>

\* line 115: run_node raises, before it saved an output or after
RunNodeRaises(n) ==
    /\ n \in Executing
    /\ catalog_saved' \in {catalog_saved, catalog_saved \cup SavedBy(n)}
    /\ result' = [result EXCEPT ![n] = "raised"]
    /\ UNCHANGED <<node_inputs, node_dependencies, load_counts, todo_nodes,
                   done_nodes, futures, done, iter, ready, pc, released,
                   done_adds, submits, resume_calls>>
    /\ UNCHANGED <<start_method, package_name, node_worker, bootstraps, calls>>
    /\ UNCHANGED <<preflight_vars, runner_vars, dataset_vars>>

\* the limits of the runner the pool is looked at with
PoolLimits == {1, 2}

\* _run of a runner made with max_workers given, from line 284 on, over
\* the pipelines in which every node lists each input once, in increasing
\* order, and reads outputs of other nodes only; the dependency map is the
\* derived one, or has an unknown prerequisite at the first node
PoolInit ==
    /\ node_inputs \in Pipelines
    /\ \A n \in Nodes :
          /\ Raw \cap Range(node_inputs[n]) = {}
          /\ \A i \in 1..Len(node_inputs[n]) : \A j \in 1..Len(node_inputs[n]) :
                i < j => node_inputs[n][i] < node_inputs[n][j]
    /\ \E p \in {NoPatch, PhantomPatch(1)} :
          node_dependencies =
              [n \in Nodes |-> Dependencies(node_inputs)[n] \cup p[n]]
    /\ Locals
    /\ pc = "constructed"
    /\ PreflightPassed
    /\ platform = "linux"
    /\ cpu_count = None
    /\ arg_max_workers \in PoolLimits
    /\ self_max_workers = arg_max_workers
    /\ max_workers = None
    /\ ManagerStarted
    /\ DataSetIdle
    /\ WorkersIdle

PoolStep ==
    \/ \E n \in Nodes : PoolStart(n)
    \/ \E n \in Nodes : RunNodeReturns(n)
    \/ \E n \in Nodes : RunNodeRaises(n)

PoolNext ==
    \/ GetRequiredWorkersCount
    \/ EnterPool
    \/ SchedulerStep
    \/ PoolStep

PoolSpec == PoolInit /\ [][PoolNext]_vars

\* the scheduler's thread keeps running, a free worker takes a waiting
\* submission, and an execution a worker has taken ends
PoolFairSpec ==
    /\ PoolSpec
    /\ WF_vars(GetRequiredWorkersCount \/ EnterPool \/ SchedulerStep)
    /\ WF_vars(\E n \in Nodes : PoolStart(n))
    /\ \A n \in Nodes : WF_vars(RunNodeReturns(n) \/ RunNodeRaises(n))

\* ------------------------------------------- pipelines of every size
\* the pipelines of 0 to NumNodes nodes in which every node lists each
\* input once, in increasing order
PipelinesOfAnySize ==
    {p \in UNION {PipelinesUpTo(k) : k \in 0..NumNodes} :
        \A n \in DOMAIN p : \A i \in 1..Len(p[n]) : \A j \in 1..Len(p[n]) :
            i < j => p[n][i] < p[n][j]}

\* the max_workers the runner is made with: positive numbers
AnySizeLimits == {1, 2, MAX_WINDOWS_WORKERS + 1}

\* a runner is made and runs a pipeline of any size, the empty one
\* included; the dependency map is the derived one, or has an unknown
\* prerequisite at the first node
AnySizeInit ==
    /\ node_inputs \in PipelinesOfAnySize
    /\ \E p \in {NoPatch, PhantomPatch(1)} :
          node_dependencies =
              [n \in DOMAIN node_inputs |-> Dependencies(node_inputs)[n] \cup p[n]]
    /\ Locals
    /\ pc = "new"
    /\ PreflightPassed
    /\ platform = "linux"
    /\ cpu_count = None
    /\ arg_max_workers \in AnySizeLimits
    /\ self_max_workers = None
    /\ max_workers = None
    /\ managers = <<>>
    /\ self_manager = [r \in Runners |-> None]
    /\ runs = <<>>
    /\ DataSetIdle
    /\ WorkersIdle

AnySizeNext ==
    \/ Construct
    \/ GetRequiredWorkersCount
    \/ EnterPool
    \/ Next

\* the scheduler's thread keeps running and every submitted execution ends
AnySizeFairSpec ==
    /\ AnySizeInit
    /\ [][AnySizeNext]_vars
    /\ WF_vars(Construct \/ GetRequiredWorkersCount \/ EnterPool \/ SchedulerStep)
    /\ \A n \in Nodes : WF_vars(NodeReturns(n) \/ NodeRaises(n))

\* ------------------------------------------- the lifetime of the runner
\* the ends of _run: it has returned, or it has raised
Over == {"success", "validation_error", "node_error", "runtime_error"}

\* a runner that can be deleted while its _run is on the stack
CollectableAnyTime == TRUE

\* the scheduler is torn down by whoever made it and called run: the
\* runner object is let go of once the run is over
Collectable == pc \in Over

\* __del__ (lines 156-157) of the runner of the run
Del ==
    /\ Collectable
    /\ self_manager[Self] # None
    /\ managers[self_manager[Self]] = "started"
    /\ managers' = [managers EXCEPT ![self_manager[Self]] = "shutdown"]
    /\ UNCHANGED <<platform, cpu_count, arg_max_workers, self_max_workers,
                   max_workers, self_manager, runs>>
    /\ UNCHANGED <<scheduler_vars, preflight_vars, dataset_vars, worker_vars>>

\* the catalogs the runs that end in every way are made with: one that
\* passes the checks, and one with a MemoryDataSet
TeardownCatalogs == {DefaultCatalog, [DefaultCatalog EXCEPT ![0] = "MemoryDataSet"]}

\* _run from its first line, of a runner whose manager is started
TeardownInit ==
    /\ node_inputs \in PreflightPipelines
    /\ \E p \in Patches :
          node_dependencies =
              [n \in Nodes |-> Dependencies(node_inputs)[n] \cup p[n]]
    /\ Locals
    /\ pc = "validate_catalog"
    /\ catalog \in TeardownCatalogs
    /\ node_picklable \in [Nodes -> BOOLEAN]
    /\ raised = <<>>
    /\ RunnerIdle
    /\ DataSetIdle
    /\ WorkersIdle

TeardownNext == PreflightNext \/ Del

TeardownSpec == TeardownInit /\ [][TeardownNext]_vars

\* the number of runs followed
MaxRuns == 3

\* a _SharedMemoryDataSet: the proxy of line 39, which names the manager
\* and the instance kept by that manager
Proxy(m, i) == [manager |-> m, referent |-> i]

NoProxy == Proxy(None, None)

NoDefaults == [name \in DefaultNames |-> NoProxy]

\* a manager that keeps one MemoryDataSet per dataset name
MemoryDataSetByName(m, ds_name) ==
    IF \E k \in 1..Len(runs) : runs[k].handles[ds_name].manager = m
    THEN LET k == CHOOSE k \in 1..Len(runs) : runs[k].handles[ds_name].manager = m
         IN  runs[k].handles[ds_name].referent
    ELSE Len(instances) + 1

\* line 39: manager.MemoryDataSet() makes a new instance in the manager
MemoryDataSet(m, ds_name) == Len(instances) + 1

\* ParallelRunner() makes the runner object r: lines 142-143
NewRunnerObject(r) ==
    /\ pc = "runs"
    /\ self_manager[r] = None
    /\ managers' = Append(managers, "started")
    /\ self_manager' = [self_manager EXCEPT ![r] = Len(managers) + 1]
    /\ UNCHANGED <<platform, cpu_count, arg_max_workers, self_max_workers,
                   max_workers, runs>>
    /\ UNCHANGED <<scheduler_vars, preflight_vars, dataset_vars, worker_vars>>

\* run of the runner object r begins, after the runs made before
StartRun(r) ==
    /\ pc = "runs"
    /\ self_manager[r] # None
    /\ Len(runs) < MaxRuns
    /\ runs' = Append(runs, [runner |-> r, handles |-> NoDefaults])
    /\ UNCHANGED <<platform, cpu_count, arg_max_workers, self_max_workers,
                   max_workers, managers, self_manager>>
    /\ UNCHANGED <<scheduler_vars, preflight_vars, dataset_vars, worker_vars>>

\* the run in progress gets the default dataset of a name its catalog
\* lacks: create_default_data_set (lines 159-172), __init__ (lines 31-39)
RunCreatesDefault(ds_name) ==
    /\ pc = "runs"
    /\ runs # <<>>
    /\ LET k == Len(runs)
           m == self_manager[runs[k].runner]
           i == MemoryDataSet(m, ds_name)
       IN  /\ runs[k].handles[ds_name] = NoProxy
           /\ instances' = IF i > Len(instances)
                           THEN Append(instances, NoData)
                           ELSE instances
           /\ runs' = [runs EXCEPT ![k].handles[ds_name] = Proxy(m, i)]
    /\ UNCHANGED <<handles, outcome, saved>>
    /\ UNCHANGED <<platform, cpu_count, arg_max_workers, self_max_workers,
                   max_workers, managers, self_manager>>
    /\ UNCHANGED <<scheduler_vars, preflight_vars, worker_vars>>

\* no runner object yet, no run yet
RunsInit ==
    /\ node_inputs \in PreflightPipelines
    /\ node_dependencies = Dependencies(node_inputs)
    /\ Locals
    /\ pc = "runs"
    /\ PreflightPassed
    /\ platform = "linux"
    /\ cpu_count = None
    /\ arg_max_workers = None
    /\ self_max_workers = None
    /\ max_workers = None
    /\ managers = <<>>
    /\ self_manager = [r \in Runners |-> None]
    /\ runs = <<>>
    /\ DataSetIdle
    /\ WorkersIdle

RunsNext ==
    \/ \E r \in Runners : NewRunnerObject(r)
    \/ \E r \in Runners : StartRun(r)
    \/ \E ds_name \in DefaultNames : RunCreatesDefault(ds_name)

RunsSpec == RunsInit /\ [][RunsNext]_vars

\* ------------------------------------------------------------ properties
SomeRaised == \E n \in Nodes : result[n] = "raised"

Consumers(d) == {n \in Nodes : d \in Range(node_inputs[n])}

\* the nodes a walk of the map can ever reach: the least set that holds
\* every node whose prerequisites are in it
RECURSIVE SchedulableFrom(_)
SchedulableFrom(S) ==
    LET T == S \cup {n \in Nodes : node_dependencies[n] \subseteq S}
    IN  IF T = S THEN S ELSE SchedulableFrom(T)

Schedulable == SchedulableFrom({})
Unschedulable == Nodes \ Schedulable

\* every prerequisite is a key of the map and no node waits for itself
AcyclicMap == Unschedulable = {}

\* the nodes n depends on, directly or transitively
RECURSIVE AncestorsFrom(_)
AncestorsFrom(S) ==
    LET T == S \cup UNION {node_dependencies[m] \cap Nodes : m \in S}
    IN  IF T = S THEN S ELSE AncestorsFrom(T)

Ancestors(n) == AncestorsFrom(node_dependencies[n] \cap Nodes)

TypeOK ==
    /\ todo_nodes \subseteq Nodes
    /\ done_nodes \subseteq Nodes
    /\ futures \subseteq Nodes
    /\ iter \subseteq done
    /\ pc \in {"validate_catalog", "validate_nodes", "validation_error",
              "new", "constructed", "pool", "datasets", "workers", "runs",
              "loop", "check", "for", "success", "node_error", "runtime_error"}

\* C1: with a valid acyclic dependency map, a node is submitted to the pool
\* only in a state where every node of its dependency set is in done_nodes,
\* having returned successfully.
C1_SubmittedAfterDependencies ==
    [][AcyclicMap =>
        \A n \in Nodes :
            submits'[n] > submits[n] =>
                \A m \in node_dependencies[n] :
                    m \in done_nodes /\ result[m] = "ok"]_vars

C1_Witness ==
    /\ AcyclicMap
    /\ \E n \in Nodes :
          /\ submits[n] = 1
          /\ Cardinality(node_dependencies[n]) = 2
\* C2: with a valid acyclic map and no node raising, the run terminates
\* (executions completing fairly) in success, every node having been added
\* to done_nodes exactly once.
C2_RunCompletes ==
    /\ [](\A n \in Nodes : done_adds[n] <= 1)
    /\ <>(\/ ~AcyclicMap
          \/ SomeRaised
          \/ /\ pc = "success"
             /\ done_nodes = Nodes
             /\ \A n \in Nodes : done_adds[n] = 1)

C2_Witness ==
    /\ AcyclicMap
    /\ pc = "success"
    /\ done_nodes = Nodes
    /\ \A n \in Nodes : done_adds[n] = 1
    /\ \E n \in Nodes : \E m \in node_dependencies[n] : node_dependencies[m] # {}

\* C3: when a node raises, the run ends, and it ends with that failure and
\* never in success (nor in the scheduling error); once the scheduler has
\* seen the failure nothing more is submitted, and no node that depends on a
\* failed node, directly or transitively, is ever submitted.
C3_FailurePropagates ==
    /\ <>(pc \in {"success", "node_error", "runtime_error"})
    /\ [](pc \in {"success", "runtime_error"} => ~SomeRaised)
    /\ [][pc = "node_error" => submits' = submits /\ pc' = "node_error"]_vars
    /\ [](\A n \in Nodes :
            submits[n] > 0 => \A m \in Ancestors(n) : result[m] # "raised")

C3_Witness ==
    /\ pc = "node_error"
    /\ \E n \in Nodes :
          /\ submits[n] = 0
          /\ \E m \in Ancestors(n) \ node_dependencies[n] : result[m] = "raised"

\* C4: the resume hint holds every node that has finished successfully when
\* it is produced, the nodes the same wait returned with the failing one
\* included (stated for the valid maps and for the nodes the scheduler has
\* been handed, the least the claim says).
C4_HintHoldsEveryFinishedNode ==
    [][AcyclicMap /\ Len(resume_calls') > Len(resume_calls) =>
        {n \in done_nodes \cup done : result[n] = "ok"}
            \subseteq resume_calls'[Len(resume_calls')]]_vars
\* C5: a dataset that k >= 1 nodes read and that is no pipeline-level input
\* is released exactly once, when the k-th of its readers has completed and
\* not before; a pipeline-level input is never released.
C5_ReleasedOnceAfterLastReader ==
    \A d \in all_inputs :
        IF d \in inputs
        THEN released[d] = 0
        ELSE released[d] = IF Consumers(d) \subseteq done_nodes THEN 1 ELSE 0

C5_Witness ==
    \E d \in all_inputs \ inputs :
        /\ Cardinality(Consumers(d)) = 2
        /\ released[d] = 1
        /\ \E e \in inputs : Consumers(e) \subseteq done_nodes

\* C6: no dataset is released while a node that lists it as an input has
\* not completed (is in todo_nodes or in flight).
C6_NoReleaseBeforeReadersDone ==
    [][\A d \in DataSets :
         released'[d] > released[d] =>
             \A n \in Consumers(d) : n \notin todo_nodes' /\ n \in done_nodes']_vars

C6_Witness ==
    \E d \in DataSets :
        /\ released[d] > 0
        /\ Consumers(d) # {}
        /\ \E n \in todo_nodes \cup futures : result[n] # "ok"

\* C7: the scheduler never calls release on a pipeline-level input or a
\* pipeline-level output, whatever the order of completion.
C7_BoundaryNeverReleased ==
    \A d \in inputs \cup outputs : released[d] = 0

C7_Witness ==
    /\ pc = "success"
    /\ \E d \in inputs : Cardinality(Consumers(d)) >= 2
    /\ \E d \in outputs : released[d] = 0
    /\ \E d \in DataSets : released[d] = 1

\* C8: the load count of every dataset is never negative and equals the
\* number of times the nodes not yet in done_nodes list it as an input.
C8_LoadCountsOfPendingReaders ==
    \A d \in DataSets :
        /\ load_counts[d] >= 0
        /\ load_counts[d] = SumOver(Nodes \ done_nodes, node_inputs, d)

C8_Witness ==
    \E d \in DataSets :
        /\ \E n \in done_nodes : Occurrences(node_inputs[n], d) = 2
        /\ \E n \in Nodes \ done_nodes : Occurrences(node_inputs[n], d) = 1
        /\ load_counts[d] = 1

\* C9: with a valid acyclic map the deadlock state (nodes left, none
\* dispatchable, nothing outstanding) is never reached, so the scheduling
\* RuntimeError is never raised.
C9_NoDeadlockOnAcyclicMap ==
    AcyclicMap =>
        /\ pc # "runtime_error"
        /\ ~(pc = "check" /\ futures = {} /\ todo_nodes # {})

C9_Witness ==
    /\ AcyclicMap
    /\ pc = "check"
    /\ futures = {}
    /\ done_nodes = Nodes
    /\ \E n \in Nodes : node_dependencies[n] # {}

\* C10: with a map in which some node can never become ready, and no node
\* raising, the run ends, once every schedulable node has completed, in the
\* scheduling RuntimeError, todo_nodes holding exactly the unschedulable
\* nodes.
C10_UnschedulableNodesReported ==
    /\ [](pc = "runtime_error" =>
            todo_nodes = Unschedulable /\ done_nodes = Schedulable)
    /\ <>(\/ AcyclicMap
          \/ SomeRaised
          \/ pc = "runtime_error")

C10_Witness ==
    /\ pc = "runtime_error"
    /\ todo_nodes = Unschedulable
    /\ done_nodes # {}
    /\ \E n \in todo_nodes : Phantom \notin node_dependencies[n]

\* ------------------------------------------ pre-flight checks: C11 .. C14
NothingStarted ==
    /\ futures = {}
    /\ done_nodes = {}
    /\ \A n \in Nodes : submits[n] = 0 /\ result[n] = "none" /\ done_adds[n] = 0
    /\ \A d \in DataSets : released[d] = 0

StrictlyIncreasing(s) == \A i \in 1..Len(s) : \A j \in 1..Len(s) : i < j => s[i] < s[j]

\* the error names every member of S once, in increasing order
NamesSorted(err, S) ==
    /\ Range(err.names) = S
    /\ Len(err.names) = Cardinality(S)
    /\ StrictlyIncreasing(err.names)

UnpicklableNodes == {n \in Nodes : ~node_picklable[n]}

UnusableDataSets ==
    {name \in DataSets : catalog[name] \in {"SingleProcessDataSet", "SparkHiveDataSet"}}

PlainMemoryOutputs == {name \in Nodes : catalog[name] = "MemoryDataSet"}

CatalogChecked == pc # "validate_catalog"

NodesChecked ==
    /\ pc \notin {"validate_catalog", "validate_nodes"}
    /\ raised # <<>> => raised[1].about = "nodes cannot be serialized"

\* C11: once a pre-flight check has raised, the run is over: that one error
\* is all there is, no node was submitted to the pool or has run, no dataset
\* was released, and no step of the run follows.
C11_PreflightFailsFast ==
    /\ [](raised # <<>> =>
            /\ pc = "validation_error"
            /\ Len(raised) = 1
            /\ NothingStarted)
    /\ [][pc = "validation_error" => FALSE]_vars

C11_Witness ==
    /\ pc = "validation_error"
    /\ raised[1].about = "nodes cannot be serialized"
    /\ catalog[0] = "MemoryDataSet"

Rejected ==
    IF raised # <<>> /\ raised[1].about = "data sets cannot be used with multiprocessing"
    THEN Range(raised[1].names)
    ELSE {}

\* C13 as stated: the transferability check accepts a handle exactly when it
\* pickles or carries the single-process flag.
C13_FlaggedHandlesAccepted ==
    CatalogChecked =>
        \A name \in DataSets :
            name \notin Rejected <=>
                \/ catalog[name] # "SparkHiveDataSet"
                \/ catalog[name] = "SingleProcessDataSet"

\* C13: the transferability check accepts a handle exactly when it pickles
\* and does not carry the single-process flag; a flagged handle makes the
\* validation fail.
C13_FlaggedHandlesRejected ==
    CatalogChecked =>
        /\ \A name \in DataSets :
              name \notin Rejected <=>
                  /\ catalog[name] # "SparkHiveDataSet"
                  /\ catalog[name] # "SingleProcessDataSet"
        /\ Rejected # {} => pc = "validation_error" /\ NothingStarted

C13_Witness ==
    /\ CatalogChecked
    /\ \E name \in Rejected : catalog[name] = "SingleProcessDataSet"
    /\ \E name \in DataSets \ Rejected : catalog[name] = "_SharedMemoryDataSet"
    /\ \A name \in DataSets : catalog[name] # "SparkHiveDataSet"

\* C14 as stated: a plain memory dataset under the name of a node's output
\* makes the run fail with one error that lists all such names, sorted.
C14_PlainMemoryOutputsReported ==
    (CatalogChecked /\ PlainMemoryOutputs # {}) =>
        /\ pc = "validation_error"
        /\ Len(raised) = 1
        /\ raised[1].about = "data sets are memory data sets"
        /\ NamesSorted(raised[1], PlainMemoryOutputs)
        /\ NothingStarted

\* C14: when every handle of the catalog passes the transferability check,
\* a plain memory dataset under the name of a node's output makes the run
\* fail before any node runs, with one error that lists all such names and
\* no other, sorted.
C14_PlainMemoryOutputsReportedWhenTransferable ==
    (CatalogChecked /\ PlainMemoryOutputs # {} /\ UnusableDataSets = {}) =>
        /\ pc = "validation_error"
        /\ Len(raised) = 1
        /\ raised[1].about = "data sets are memory data sets"
        /\ NamesSorted(raised[1], PlainMemoryOutputs)
        /\ NothingStarted

C14_Witness ==
    /\ CatalogChecked
    /\ UnusableDataSets = {}
    /\ Cardinality(PlainMemoryOutputs) >= 2
    /\ catalog[0] = "MemoryDataSet"
    /\ \E name \in Nodes : catalog[name] = "MemoryDataSetProxy"
    /\ raised # <<>>

\* ------------------------------------------- number of workers: C15, C16
\* the nodes of the longest chain of prerequisites that ends in n
RECURSIVE ChainTo(_)
ChainTo(n) ==
    LET before == {ChainTo(m) : m \in Dependencies(node_inputs)[n]}
    IN  1 + (IF before = {} THEN 0 ELSE CHOOSE k \in before : \A j \in before : j <= k)

Layers == CHOOSE k \in {ChainTo(n) : n \in Nodes} : \A n \in Nodes : ChainTo(n) <= k

\* the limit of the runner: the max_workers given, else the CPU count (1
\* where it is unknown), on win32 capped at 61
ConfiguredOrDerived ==
    IF arg_max_workers # None THEN arg_max_workers
    ELSE IF cpu_count = None THEN 1
    ELSE IF platform = "win32" /\ cpu_count > 61 THEN 61
    ELSE cpu_count

\* C15: the number of workers of a run is the smaller of (nodes - layers
\* + 1) and the configured or CPU-derived limit; it is never above the
\* max_workers given to the runner.
C15_WorkersCountIsCappedEstimate ==
    pc = "pool" =>
        /\ \/ /\ max_workers = NumNodes - Layers + 1
              /\ max_workers <= ConfiguredOrDerived
           \/ /\ max_workers = ConfiguredOrDerived
              /\ max_workers <= NumNodes - Layers + 1
        /\ arg_max_workers # None => max_workers <= arg_max_workers

C15_Witness ==
    /\ pc = "pool"
    /\ Layers = 1
    /\ arg_max_workers = 2
    /\ max_workers = 2
    /\ NumNodes > 2

\* C16 as stated: on win32 the limit of a runner is never above 61,
\* whatever max_workers was given or derived.
C16_WindowsLimitNeverAbove61 ==
    (pc \in {"constructed", "pool"} /\ platform = "win32") => self_max_workers <= 61

\* ------------------------------------- _SharedMemoryDataSet: C17 .. C19
LastCall(op) == outcome # <<>> /\ outcome[1].op = op

\* C17: a save whose store failed and whose data pickle.dumps does not take
\* raises a DataSetError that names the class of the data; the caller does
\* not get the error of the store.
C17_UnpicklableDataRaisesDataSetError ==
    (LastCall("save") /\ outcome[1].stored # NoError /\ ~outcome[1].data.picklable) =>
        /\ outcome[1].probed
        /\ outcome[1].raised.type = "DataSetError"
        /\ outcome[1].raised.about = outcome[1].data.class
        /\ outcome[1].raised # outcome[1].stored

C17_Witness ==
    /\ LastCall("save")
    /\ outcome[1].stored.type = "ConnectionError"
    /\ outcome[1].data.class = "TextIOWrapper"
    /\ outcome[1].proc \in Workers

\* C18: a save whose store failed and whose data pickle.dumps takes raises
\* the error of the store itself, not a DataSetError; a save whose store
\* succeeded tries no pickle.dumps and raises nothing.
C18_TransportErrorReraisedUnchanged ==
    LastCall("save") =>
        /\ (outcome[1].stored # NoError /\ outcome[1].data.picklable) =>
              /\ outcome[1].raised = outcome[1].stored
              /\ outcome[1].raised.type # "DataSetError"
        /\ outcome[1].stored = NoError =>
              /\ ~outcome[1].probed
              /\ outcome[1].raised = NoError
              /\ saved[outcome[1].name].data = outcome[1].data

C18_Witness ==
    /\ LastCall("save")
    /\ outcome[1].stored.type = "ConnectionError"
    /\ outcome[1].data.class = "DataFrame"
    /\ outcome[1].raised.type = "ConnectionError"

\* C19: the handles of a name in all processes refer to one instance of
\* the manager, made when the default dataset was created; load in any
\* process returns the data last saved by any process and not released
\* since, and raises when there is none; exists tells whether there is
\* such data; after release there is none.
C19_OneBackingInstance ==
    /\ Len(instances) = Cardinality({name \in DefaultNames : handles[Scheduler][name] # None})
    /\ \A p \in Procs : \A name \in DefaultNames :
          handles[p][name] # None =>
              /\ handles[p][name] = handles[Scheduler][name]
              /\ instances[handles[p][name]] = saved[name].data
    /\ LastCall("load") =>
          /\ outcome[1].returned = saved[outcome[1].name].data
          /\ outcome[1].raised = NoError <=> saved[outcome[1].name].data # NoData
    /\ LastCall("exists") =>
          outcome[1].found = (saved[outcome[1].name].data # NoData)
    /\ LastCall("release") => saved[outcome[1].name].data = NoData

C19_Witness ==
    /\ LastCall("load")
    /\ outcome[1].returned.class = "DataFrame"
    /\ outcome[1].proc \in Workers
    /\ saved[outcome[1].name].by \in Workers \ {outcome[1].proc}

\* ------------------------------------------------------- bootstrap: C20
NodesRunBy(w) == {n \in Nodes : node_worker[n] = w}

\* C20 as stated: under the spawn start method, with a project package, a
\* worker process that has run one or more nodes has run the bootstrap
\* once.
C20_BootstrapOncePerWorker ==
    (start_method = "spawn" /\ package_name # "") =>
        \A w \in Workers : NodesRunBy(w) # {} => bootstraps[w] = 1

\* --------------------------------------------- the scheduler: C24 .. C29
Completed(n) == result[n] \in {"ok", "raised"}

\* C24: wait returns as soon as one outstanding execution has ended,
\* whatever the others do: with the loop at the wait and an ended future,
\* the scheduler can go on; what wait returns is the ended futures, and
\* the others stay outstanding.
C24_ResumesAfterFirstCompletion ==
    /\ []((pc = "check" /\ \E n \in futures : Completed(n)) => ENABLED Wait)
    /\ [][(pc = "check" /\ pc' = "for") =>
            /\ done' # {}
            /\ done' = {n \in futures : Completed(n)}
            /\ futures' = {n \in futures : ~Completed(n)}]_vars

\* A -> C and an independent B: C in flight together with B, which was
\* submitted before it
C24_Witness ==
    /\ \E a \in Nodes, b \in Nodes, c \in Nodes :
          /\ node_dependencies[c] = {a}
          /\ node_dependencies[a] = {}
          /\ node_dependencies[b] = {}
          /\ a \in done_nodes
          /\ result[b] = "pending"
          /\ result[c] = "pending"
          /\ {b, c} \subseteq futures

\* C25: every ready node is submitted in the iteration that finds it ready:
\* a Submit step submits all the nodes left whose prerequisites are in
\* done_nodes, and at the wait no node left in todo_nodes has them all there.
C25_DispatchIsMaximal ==
    /\ [][(pc = "loop" /\ pc' = "check") =>
            futures' \ futures =
                {n \in todo_nodes : node_dependencies[n] \subseteq done_nodes}]_vars
    /\ [](pc = "check" =>
            \A n \in todo_nodes : ~(node_dependencies[n] \subseteq done_nodes))

\* A and B independent and submitted together, C that depends on both
\* still in todo_nodes
C25_Witness ==
    /\ pc = "check"
    /\ \E a \in Nodes, b \in Nodes, c \in Nodes :
          /\ a # b
          /\ node_dependencies[c] = {a, b}
          /\ {a, b} \subseteq futures
          /\ submits[a] = 1 /\ submits[b] = 1
          /\ a \in ready /\ b \in ready
          /\ c \in todo_nodes

\* C26 as stated: todo_nodes and done_nodes are disjoint, and until a
\* failure is seen todo_nodes, futures and done_nodes are pairwise disjoint
\* and make up the keys of the dependency map.
C26_PartitionByFutures ==
    /\ todo_nodes \cap done_nodes = {}
    /\ pc # "node_error" =>
          /\ todo_nodes \cap futures = {}
          /\ futures \cap done_nodes = {}
          /\ todo_nodes \cup futures \cup done_nodes = DOMAIN node_dependencies

\* C26: todo_nodes and done_nodes are disjoint, and until a failure is seen
\* todo_nodes, the submitted nodes not yet added to done_nodes (futures and
\* the futures of the last wait the for loop has not visited) and
\* done_nodes are pairwise disjoint and make up the keys of the map.
C26_PartitionBySubmittedNotIntegrated ==
    /\ todo_nodes \cap done_nodes = {}
    /\ pc # "node_error" =>
          /\ todo_nodes \cap (futures \cup iter) = {}
          /\ (futures \cup iter) \cap done_nodes = {}
          /\ futures \cap iter = {}
          /\ todo_nodes \cup futures \cup iter \cup done_nodes = DOMAIN node_dependencies

C26_Witness ==
    /\ pc = "for"
    /\ todo_nodes # {}
    /\ futures # {}
    /\ iter # {}
    /\ \A n \in Nodes : result[n] # "raised"

\* C27: _run returns normally only with todo_nodes empty, no future
\* outstanding, and every node run and in done_nodes.
C27_SuccessOnlyWhenAllDone ==
    pc = "success" =>
        /\ todo_nodes = {}
        /\ futures = {}
        /\ done_nodes = Nodes
        /\ \A n \in Nodes : result[n] = "ok" /\ submits[n] = 1

C27_Witness ==
    /\ pc = "success"
    /\ \E n \in Nodes : Cardinality(node_dependencies[n]) >= 2

InFlight == {n \in Nodes : submits[n] > 0 /\ ~Completed(n)}

\* C29: in a run over the dependency map the pipeline derives, the nodes
\* submitted and not yet completed, and the futures the scheduler holds,
\* are never more than (nodes - layers + 1).
C29_EstimateBoundsParallelism ==
    node_dependencies = Dependencies(node_inputs) =>
        /\ Cardinality(InFlight) <= Cardinality(Nodes) - Len(grouped_nodes) + 1
        /\ Cardinality(futures) <= Cardinality(Nodes) - Len(grouped_nodes) + 1

C29_Witness ==
    /\ node_dependencies = Dependencies(node_inputs)
    /\ Len(grouped_nodes) = 2
    /\ Cardinality(InFlight) = Cardinality(Nodes) - 1
    /\ done_nodes # {}

\* ------------------------------------------ the worker pool: C21, C22, C30
\* C21: a node in done_nodes has saved every one of its outputs, and a
\* submitted node finds every input that another node writes saved.
C21_OutputsSavedBeforeDone ==
    /\ \A n \in done_nodes : \A d \in Range(node_outputs(n)) : d \in catalog_saved
    /\ \A n \in Nodes :
          submits[n] > 0 =>
              \A d \in Range(node_inputs[n]) :
                  (\E m \in Nodes \ {n} : d \in Range(node_outputs(m))) => d \in catalog_saved

C21_Witness ==
    \E n \in Nodes :
        /\ result[n] = "pending"
        /\ node_worker[n] # None
        /\ Cardinality(Range(node_inputs[n]) \cap Nodes) >= 2

\* C22: once the scheduler has seen a failure, every submitted execution
\* still ends by returning or raising, the ones no worker had taken
\* included, and none of it reaches done_nodes, the load counts or the
\* releases.
C22_SubmittedNodesDrainUnintegrated ==
    /\ <>[](pc = "node_error" =>
              \A n \in Nodes : submits[n] > 0 => result[n] \in {"ok", "raised"})
    /\ [][pc = "node_error" =>
            /\ done_nodes' = done_nodes
            /\ done_adds' = done_adds
            /\ load_counts' = load_counts
            /\ released' = released]_vars
    /\ [][\A n \in Nodes :
            result[n] = "pending" => result'[n] \in {"pending", "ok", "raised"}]_vars

\* after the failure: an execution that has returned and is not in
\* done_nodes, and another no worker has taken yet
C22_Witness ==
    /\ pc = "node_error"
    /\ \E n \in futures : result[n] = "ok" /\ n \notin done_nodes
    /\ \E n \in futures : result[n] = "pending" /\ node_worker[n] = None

\* C30: never more executions in the worker processes than the computed
\* number of workers; a submission starts only on a free worker; every
\* submitted node is taken by a worker in the end.
C30_PoolCapRespectedNoStarvation ==
    /\ [](max_workers # None =>
            /\ Cardinality({n \in Nodes : result[n] = "pending" /\ node_worker[n] # None})
                  <= max_workers
            /\ \A n \in Nodes : node_worker[n] # None => node_worker[n] \in 1..max_workers)
    /\ [][\A n \in Nodes :
            (node_worker[n] = None /\ node_worker'[n] # None) =>
                Cardinality({m \in Nodes : result[m] = "pending" /\ node_worker[m] # None})
                    < max_workers]_vars
    /\ <>[](\A n \in Nodes : submits[n] > 0 => node_worker[n] # None)

\* more independent nodes than workers: the pool is full and a submission
\* waits
C30_Witness ==
    /\ max_workers = 2
    /\ Cardinality({n \in Nodes : result[n] = "pending" /\ node_worker[n] # None}) = 2
    /\ \E n \in Nodes : result[n] = "pending" /\ node_worker[n] = None
    /\ \A n \in Nodes : node_dependencies[n] = {}

HandlesOf(k) == {runs[k].handles[name] : name \in DefaultNames} \ {NoProxy}

\* C28 as stated: the default datasets of two different runs are never
\* on the same manager, and never refer to the same instance of a manager.
C28_ManagerOwnedByOneRun ==
    \A i \in 1..Len(runs), j \in 1..Len(runs) :
        i # j =>
            \A a \in HandlesOf(i), b \in HandlesOf(j) :
                /\ a.manager # b.manager
                /\ a # b

\* C28: the default datasets of a run are on the manager of the runner
\* object that makes the run, so those of two runs are on the same manager
\* exactly when the same runner object made both; no two default datasets,
\* of different runs or of one, refer to the same instance of a manager.
C28_ManagerOwnedByRunner ==
    /\ \A k \in 1..Len(runs) : \A a \in HandlesOf(k) :
          /\ a.manager = self_manager[runs[k].runner]
          /\ managers[a.manager] = "started"
          /\ a.referent \in 1..Len(instances)
    /\ \A i \in 1..Len(runs), j \in 1..Len(runs) :
          \A a \in HandlesOf(i), b \in HandlesOf(j) :
              (a.manager = b.manager) <=> (runs[i].runner = runs[j].runner)
    /\ \A i \in 1..Len(runs), j \in 1..Len(runs) :
          \A a \in DefaultNames, b \in DefaultNames :
              (<<i, a>> # <<j, b>> /\ runs[i].handles[a] # NoProxy) =>
                  runs[i].handles[a] # runs[j].handles[b]

\* two successive runs of one runner object, each with the default dataset
\* of the same name, and a run of another runner object
C28_Witness ==
    /\ Len(runs) = 3
    /\ runs[1].runner = runs[2].runner
    /\ runs[3].runner # runs[1].runner
    /\ \A k \in 1..3 : runs[k].handles[0] # NoProxy

\* C31: in a run every node is submitted at most once; an execution that
\* has returned or raised keeps its result and is not submitted again.
C31_SubmittedAtMostOnce ==
    /\ [](\A n \in Nodes : submits[n] <= 1)
    /\ [][\A n \in Nodes :
            Completed(n) => result'[n] = result[n] /\ submits'[n] = submits[n]]_vars
    /\ [][\A n \in Nodes : submits'[n] # submits[n] => n \in todo_nodes /\ n \notin todo_nodes']_vars

\* a submit pass has just run while one execution had raised and another
\* node was done: neither is in the pass
C31_Witness ==
    /\ pc = "check"
    /\ ready # {}
    /\ \E a \in Nodes \ ready : result[a] = "raised"
    /\ done_nodes \ ready # {}

\* C32: _suggest_resume_scenario is called at most once in a run; a run
\* that ended on a node's exception has called it exactly once and stays
\* ended, however many executions have raised; as long as no execution has
\* raised, and in every run that ends otherwise, it is not called.
C32_ReporterCalledOnceOnFailure ==
    /\ [](Len(resume_calls) = IF pc = "node_error" THEN 1 ELSE 0)
    /\ [](resume_calls # <<>> => \E n \in done : result[n] = "raised")
    /\ [][pc = "node_error" => pc' = "node_error" /\ resume_calls' = resume_calls]_vars

\* the run has ended on an exception while two executions of the same
\* wait and one still in futures have raised
C32_Witness ==
    /\ pc = "node_error"
    /\ Cardinality({n \in done : result[n] = "raised"}) >= 2
    /\ \E n \in futures : result[n] = "raised"

\* C33: every node of the done_nodes handed to _suggest_resume_scenario
\* has been submitted, has returned and has saved its outputs; the set
\* holds no node that raised and none that is still in flight.
C33_ResumeHintIsSound ==
    \A i \in 1..Len(resume_calls) : \A n \in resume_calls[i] :
        /\ n \in Nodes
        /\ submits[n] > 0
        /\ result[n] = "ok"
        /\ Range(node_outputs(n)) \subseteq catalog_saved
        /\ n \notin futures

\* the hint names a node, while another node has raised and a third was
\* never submitted
C33_Witness ==
    /\ pc = "node_error"
    /\ resume_calls[1] # {}
    /\ \E n \in Nodes \ resume_calls[1] : result[n] = "raised"
    /\ \E n \in Nodes : submits[n] = 0

\* C34: a node whose execution raised is never integrated, so none of its
\* inputs has been released at any time of the run and the load count of
\* each is still at least 1, in the run that ends on the exception too.
C34_FailedNodeInputsNotReleased ==
    \A n \in Nodes :
        result[n] = "raised" =>
            \A d \in Range(node_inputs[n]) :
                released[d] = 0 /\ load_counts[d] >= 1

\* the run has ended on the exception of a node; another reader of one of
\* its inputs is done, and the load count of that input has gone down
C34_Witness ==
    /\ pc = "node_error"
    /\ \E n \in done : \E m \in done_nodes :
          /\ result[n] = "raised"
          /\ \E d \in Range(node_inputs[n]) \cap Range(node_inputs[m]) :
                /\ d \notin inputs
                /\ load_counts[d] < Counter(node_inputs)[d]

Unreferenced == DataSets \ (all_inputs \cup all_outputs)

\* C35: the transferability check walks the whole catalog: a handle that
\* does not pickle or is flagged single-process under a name no node reads
\* or writes is reported and the run fails before any node runs.
C35_WholeCatalogChecked ==
    CatalogChecked =>
        \A name \in Unreferenced :
            catalog[name] \in {"SingleProcessDataSet", "SparkHiveDataSet"} =>
                /\ pc = "validation_error"
                /\ name \in Rejected
                /\ NothingStarted

\* the only offending handles are under names no node reads or writes
C35_Witness ==
    /\ CatalogChecked
    /\ UnusableDataSets # {}
    /\ UnusableDataSets \subseteq Unreferenced
    /\ \A name \in DataSets : catalog[name] # "MemoryDataSet"
    /\ UnpicklableNodes = {}

\* C36: the checks run in the order unserializable datasets, plain memory
\* outputs, unserializable nodes, and the first that fails is the only one
\* reported.
C36_ChecksInFixedOrder ==
    /\ [](CatalogChecked =>
            /\ UnusableDataSets # {} =>
                  /\ Len(raised) = 1
                  /\ raised[1].about = "data sets cannot be used with multiprocessing"
            /\ (UnusableDataSets = {} /\ PlainMemoryOutputs # {}) =>
                  /\ Len(raised) = 1
                  /\ raised[1].about = "data sets are memory data sets"
            /\ (UnusableDataSets = {} /\ PlainMemoryOutputs = {}) =>
                  \/ raised = <<>>
                  \/ /\ Len(raised) = 1
                     /\ raised[1].about = "nodes cannot be serialized"
                     /\ pc = "validation_error")
    /\ [][pc = "validate_nodes" => CatalogChecked /\ raised = <<>>]_vars
    /\ [][raised' # raised => pc \in {"validate_catalog", "validate_nodes"}]_vars

\* a catalog with an unserializable dataset and a plain memory output, and
\* a node that does not pickle: one error
C36_Witness ==
    /\ pc = "validation_error"
    /\ UnusableDataSets # {}
    /\ PlainMemoryOutputs # {}
    /\ UnpicklableNodes # {}

\* C40: a catalog that holds a SparkHiveDataSet fails the transferability
\* check: the one error lists its name among the names that cannot be
\* used, every name once and in increasing order, and no node runs.
C40_SparkHiveDataSetRejected ==
    CatalogChecked =>
        \A name \in DataSets :
            catalog[name] = "SparkHiveDataSet" =>
                /\ pc = "validation_error"
                /\ Len(raised) = 1
                /\ raised[1].about = "data sets cannot be used with multiprocessing"
                /\ name \in Range(raised[1].names)
                /\ StrictlyIncreasing(raised[1].names)
                /\ NothingStarted

\* SparkHiveDataSet is the only offending handle, next to another kind
C40_Witness ==
    /\ CatalogChecked
    /\ \E name \in DataSets : catalog[name] = "SparkHiveDataSet"
    /\ \A name \in DataSets : catalog[name] \in {"SparkHiveDataSet", "_SharedMemoryDataSet"}
    /\ \E name \in DataSets : catalog[name] = "_SharedMemoryDataSet"

\* C37: for every pipeline, the empty one included, there are at most as
\* many layers as nodes and the number of workers handed to the pool is at
\* least 1; the run of the empty pipeline submits nothing, does not raise
\* the scheduling error and ends in success.
C37_AtLeastOneWorkerAndEmptyRunSucceeds ==
    /\ [](Len(grouped_nodes) <= Cardinality(nodes))
    /\ [](pc \notin {"new", "constructed"} => max_workers >= 1)
    /\ [](nodes = {} =>
            /\ pc \notin {"runtime_error", "node_error"}
            /\ futures = {}
            /\ \A n \in Nodes : submits[n] = 0 /\ result[n] = "none")
    /\ (nodes = {} => <>(pc = "success"))

\* the run of the empty pipeline has ended in success with a pool of one
\* worker, although the runner allows more
C37_Witness ==
    /\ nodes = {}
    /\ pc = "success"
    /\ max_workers = 1
    /\ self_max_workers > 1

\* C39: a call of _run_node_synchronization runs the bootstrap, before the
\* node, exactly when the start method is spawn and a package name is set;
\* under fork or forkserver, or without a package name, it does not; in
\* every case the node is run, last, and the node is what the call returns.
C39_BootstrapExactlyOnSpawnWithPackage ==
    /\ [](\A n \in Nodes :
            node_worker[n] # None =>
                /\ calls[n].returned = n
                /\ calls[n].steps[Len(calls[n].steps)] = "run_node"
                /\ Cardinality({i \in 1..Len(calls[n].steps) :
                                   calls[n].steps[i] = "run_node"}) = 1
                /\ (start_method = "spawn" /\ package_name # "") <=>
                       (Len(calls[n].steps) = 2 /\ calls[n].steps[1] = "_bootstrap_subprocess")
                /\ (start_method # "spawn" \/ package_name = "") =>
                       calls[n].steps = <<"run_node">>)
    /\ [][\A w \in Workers :
            bootstraps'[w] - bootstraps[w] =
                IF start_method = "spawn" /\ package_name # ""
                THEN Cardinality({n \in Nodes : node_worker[n] = None /\ node_worker'[n] = w})
                ELSE 0]_vars
    /\ [](\A n \in Nodes : node_worker[n] = None => calls[n] = NoCall)

\* under spawn with a package name every node has run after the bootstrap
\* and was returned
C39_Witness ==
    /\ pc = "workers"
    /\ start_method = "spawn"
    /\ package_name # ""
    /\ \A n \in Nodes :
          /\ node_worker[n] # None
          /\ calls[n] = [steps |-> <<"_bootstrap_subprocess", "run_node">>, returned |-> n]

\* C38: when a node is integrated, each of its outputs is a pipeline-level
\* output or still has a positive load count, so the output loop releases
\* nothing: the releases of the pass are those of the input loop.
C38_OutputLoopNeverReleases ==
    [][\A node \in Nodes :
         done_adds'[node] # done_adds[node] =>
             /\ \A d \in Range(node_outputs(node)) :
                   load_counts'[d] >= 1 \/ d \in outputs
             /\ released' =
                   InputLoop(node_inputs[node], 1, load_counts, released).released]_vars

\* the run is over: the output of a node that others read was released,
\* once, and the output of the node integrated last was not
C38_Witness ==
    /\ pc = "success"
    /\ \E d \in all_outputs \ outputs : released[d] = 1 /\ Cardinality(Consumers(d)) >= 2
    /\ \A d \in outputs : released[d] = 0
====
